---- MODULE Spec2Model ----
(***************************************************************************)
(* Halley MessageQueue (halley/net/src/message_queue.cpp): channel table,  *)
(* pending message list, packet packer, pending-packet table, resend on    *)
(* timeout and ack bookkeeping, as a state machine.                        *)
(*                                                                         *)
(* Time is counted in ticks of 0.1 s of std::chrono::steady_clock.  A       *)
(* tracked packet carries elapsed = now - timeSent instead of timeSent;    *)
(* the clock's tick adds one to every elapsed, up to MaxElapsed.           *)
(***************************************************************************)
EXTENDS Integers, Sequences, FiniteSets, TLC

\* ------------------------------------------------------------------ bounds
\* Successful enqueue calls in one run.
MaxMsgs == 2
\* Ticks (0.1 s each) up to which the age of a tracked packet is counted.
MaxElapsed == 3
\* Packets the transport holds for receiveAll at one time.
MaxInbound == 3
\* Messages pending when a sendAll starts packing.
MaxPending == 3

\* ------------------------------------------------------- program constants
\* channels(32)
NumChannels == 32
\* size_t maxSize = 1200
maxSize == 1200
\* elapsed > 0.1f, in ticks
ResendFloor == 1
\* msgSize >= 128 selects the two-byte length field
LongLength == 128
\* tag of a ReliableSubPacket that nobody assigned a tag to
UntaggedTag == -1

\* unsigned short
ShortSpace == 2^16

\* --------------------------------------------------- 32-bit unsigned values
\* An unsigned 32-bit value is kept as its two 16-bit halves, hi * 2^16 + lo.
U32(hi, lo) == [hi |-> hi, lo |-> lo]

U32Zero == U32(0, 0)

\* ++x
U32Inc(x) ==
  IF x.lo + 1 < ShortSpace THEN U32(x.hi, x.lo + 1)
  ELSE U32((x.hi + 1) % ShortSpace, 0)

\* a - b, modulo 2^32
U32Sub(a, b) ==
  LET borrow == IF a.lo < b.lo THEN 1 ELSE 0
  IN U32((a.hi - b.hi - borrow) % ShortSpace, (a.lo - b.lo) % ShortSpace)

\* a < b
U32Less(a, b) == a.hi < b.hi \/ (a.hi = b.hi /\ a.lo < b.lo)

\* 0x7FFFFFFF
AckWindow == U32(32767, 65535)

\* ------------------------------------------------------------ input sets
\* channel numbers the caller passes: two valid slots and both sides outside
ChannelInputs == {-1, 0, 1, NumChannels}
\* (reliable, ordered, keepLastSent)
SettingsInputs ==
  { [reliable |-> TRUE,  ordered |-> TRUE,  keepLastSent |-> TRUE],
    [reliable |-> FALSE, ordered |-> FALSE, keepLastSent |-> FALSE] }
\* getSerializedSize() of the messages the caller enqueues
MsgSizes == {10, 600, 1300}
\* connection->getLatency(), in ticks: 0 s and 0.1 s
Latencies == {0, 1}
\* tags the transport may acknowledge
AckTags == UntaggedTag .. MaxMsgs - 1

VARIABLES
  channels,        \* std::vector<Channel> channels: the slots setChannel has written,
                   \* by channel number; every other slot is NewChannel
  pendingMsgs,     \* list of messages not yet packed
  pendingPackets,  \* map tag -> PendingPacket
  nextPacketId,    \* next tag createPacket hands out
  sequenceSent,    \* the transport's packet sequence counter
  toSend,          \* the sub-packets the step just taken handed to sendTagged
  timesSent,       \* per message body: the payloads handed to sendTagged that held it
  nEnq,            \* number of successful enqueue calls
  threw,           \* the exception the last call ended with and its caller has not
                   \* caught yet, "" if none
  inbound,         \* the packets connection->receive has yet to hand out
  received         \* what the last receiveAll returned

vars == <<channels, pendingMsgs, pendingPackets, nextPacketId,
          sequenceSent, toSend, timesSent, nEnq, threw, inbound, received>>

\* --------------------------------------------------------------- records
NoMsg == [channel |-> -1, seq |-> U32Zero, size |-> 0, body |-> 0]

DefaultSettings == [reliable |-> FALSE, ordered |-> FALSE, keepLastSent |-> FALSE]

NewChannel ==
  [initialized |-> FALSE, settings |-> DefaultSettings,
   lastSeq |-> U32Zero, lastAckSeq |-> U32Zero, lastAck |-> NoMsg]

\* a PendingPacket as std::map::operator[] inserts it; its timeSent is the
\* clock's epoch
ValueInitPacket ==
  [msgs |-> <<>>, size |-> 0, reliable |-> FALSE, elapsed |-> MaxElapsed, seq |-> 0]

\* what the calls end with
Returned == ""
ExpectsFailed == "Expects"
AlreadySet == "already set"
NotSetUp == "has not been set up"
NotAbleToFit == "Was not able to fit any messages into packet!"

\* channels[c] of the source, for c in [0, NumChannels)
slot(chans, c) == IF c \in DOMAIN chans THEN chans[c] ELSE NewChannel

Init ==
  /\ channels = [c \in {} |-> NewChannel]
  /\ pendingMsgs = <<>>
  /\ pendingPackets = [t \in {} |-> ValueInitPacket]
  /\ nextPacketId = 0
  /\ sequenceSent = 0
  /\ toSend = <<>>
  /\ timesSent = [b \in 1 .. MaxMsgs |-> 0]
  /\ nEnq = 0
  /\ threw = Returned
  /\ inbound = <<>>
  /\ received = <<>>

\* ------------------------------------------------------------ setChannel
channelInRange(channel) == channel >= 0 /\ channel < NumChannels

\* a setChannel that does not look at initialized
neverSet(channel) == FALSE

alreadySet(channel) == slot(channels, channel).initialized

setChannel(channel, settings) ==
  /\ threw = Returned
  /\ UNCHANGED <<pendingMsgs, pendingPackets, nextPacketId, sequenceSent,
                 timesSent, nEnq, inbound, received>>
  /\ toSend' = <<>>
  /\ IF ~channelInRange(channel)
       THEN /\ threw' = ExpectsFailed
            /\ UNCHANGED channels
       ELSE IF alreadySet(channel)
       THEN /\ threw' = AlreadySet
            /\ UNCHANGED channels
       ELSE /\ channels' = [c \in DOMAIN channels \cup {channel} |->
                              IF c = channel
                                THEN [slot(channels, c) EXCEPT !.settings = settings,
                                                               !.initialized = TRUE]
                                ELSE channels[c]]
            /\ threw' = Returned

\* --------------------------------------------------------------- enqueue
\* channel.lastSeq without the increment
sameSeq(lastSeq) == lastSeq

nextSeq(lastSeq) == U32Inc(lastSeq)

\* one sequence counter for the whole queue: every channel's lastSeq moves
sequencedAll(chans, channelNumber) ==
  [c \in DOMAIN chans |-> [chans[c] EXCEPT !.lastSeq = nextSeq(@)]]

\* ++channel.lastSeq on the channel table
sequenced(chans, channelNumber) ==
  [c \in DOMAIN chans \cup {channelNumber} |->
     IF c = channelNumber THEN [slot(chans, c) EXCEPT !.lastSeq = nextSeq(@)]
                          ELSE chans[c]]

\* an enqueue that does not look at initialized
setUpOrNot(channelNumber) == FALSE

\* !channels[channelNumber].initialized
notSetUp(channelNumber) == ~slot(channels, channelNumber).initialized

enqueue(size, channelNumber) ==
  /\ threw = Returned
  /\ UNCHANGED <<pendingPackets, nextPacketId, sequenceSent, timesSent,
                 inbound, received>>
  /\ toSend' = <<>>
  /\ IF ~channelInRange(channelNumber)
       THEN /\ threw' = ExpectsFailed
            /\ UNCHANGED <<channels, pendingMsgs, nEnq>>
       ELSE IF notSetUp(channelNumber)
       THEN /\ threw' = NotSetUp
            /\ UNCHANGED <<channels, pendingMsgs, nEnq>>
       ELSE /\ nEnq < MaxMsgs
            /\ channels' = sequenced(channels, channelNumber)
            /\ pendingMsgs' = Append(pendingMsgs,
                                     [channel |-> channelNumber,
                                      seq |-> channels'[channelNumber].lastSeq,
                                      size |-> size, body |-> nEnq + 1])
            /\ nEnq' = nEnq + 1
            /\ threw' = Returned

\* ----------------------------------------------------- serializeMessages
headerSize(isOrdered, msgSize) ==
  1 + (IF isOrdered THEN 2 ELSE 0) + (IF msgSize >= LongLength THEN 2 ELSE 1)

\* the length field: two bytes with the high bit of the first set, or one byte
lengthBytes(msgSize) ==
  IF msgSize >= LongLength
    THEN << ((msgSize \div 256) % 128) + 128, msgSize % 256 >>
    ELSE << msgSize % 128 >>

\* one message on the wire: channel byte, 16-bit sequence when the channel is
\* ordered (-1 stands for "not written"), length field, payload
frame(msg) ==
  [channel  |-> msg.channel,
   sequence |-> IF slot(channels, msg.channel).settings.ordered
                  THEN msg.seq.lo ELSE -1,
   length   |-> lengthBytes(msg.size),
   payload  |-> msg.body]

serializeMessages(msgs, size) ==
  [size |-> size, frames |-> [i \in 1 .. Len(msgs) |-> frame(msgs[i])]]

\* ReliableSubPacket(data) and ReliableSubPacket(data, resendSeq): neither
\* constructor is given a tag
SubPacket(data) ==
  [data |-> data, tag |-> UntaggedTag, seq |-> 0, resends |-> FALSE, resendSeq |-> 0]

ResendSubPacket(data, resendSeq) ==
  [data |-> data, tag |-> UntaggedTag, seq |-> 0, resends |-> TRUE, resendSeq |-> resendSeq]

\* ------------------------------------------------------------ checkReSend
isStale(pending, latency) ==
  pending.elapsed > ResendFloor /\ pending.elapsed > latency * 2

\* a resend that does not look at the packet's reliability
resendsAny(pending) == TRUE

resendsIt(pending) == pending.reliable

Min(S) == CHOOSE x \in S : \A y \in S : x <= y

\* the map is walked in key order
RECURSIVE collectStale(_, _, _)
collectStale(tags, packets, collect) ==
  IF tags = {} THEN collect
  ELSE LET t == Min(tags)
           pending == packets[t]
       IN collectStale(tags \ {t}, packets,
            IF resendsIt(pending)
              THEN Append(collect,
                     ResendSubPacket(serializeMessages(pending.msgs, pending.size), pending.seq))
              ELSE collect)

checkReSend(packets, latency, collect) ==
  LET stale == {t \in DOMAIN packets : isStale(packets[t], latency)}
  IN [collect |-> collectStale(stale, packets, collect),
      pendingPackets |-> [t \in DOMAIN packets \ stale |-> packets[t]]]

\* ----------------------------------------------------------- createPacket
\* the compatibility test without its "first message" case
compatibleNotFirst(first, isReliable, packetReliable) ==
  isReliable = packetReliable

\* a packer that takes every message, whatever its channel's reliability
compatibleAlways(first, isReliable, packetReliable) == TRUE

compatible(first, isReliable, packetReliable) ==
  first \/ isReliable = packetReliable

\* the budget test on the message alone, not on the running total
fitsAlone(size, totalSize) == totalSize <= maxSize

fits(size, totalSize) == size + totalSize <= maxSize

\* sentMsgs.insert(sentMsgs.begin(), ...) in place of push_back
pushFront(sentMsgs, msg) == <<msg>> \o sentMsgs

\* sentMsgs.push_back(std::move(*iter))
pushBack(sentMsgs, msg) == Append(sentMsgs, msg)

\* the scan over pendingMsgs: what goes in the packet and what stays behind
RECURSIVE scanPending(_, _, _, _, _, _)
scanPending(list, size, first, packetReliable, sentMsgs, rest) ==
  IF list = <<>>
    THEN [sentMsgs |-> sentMsgs, pendingMsgs |-> rest, size |-> size,
          packetReliable |-> packetReliable]
    ELSE LET msg == Head(list)
             isReliable == slot(channels, msg.channel).settings.reliable
             isOrdered == slot(channels, msg.channel).settings.ordered
             totalSize == headerSize(isOrdered, msg.size) + msg.size
         IN IF compatible(first, isReliable, packetReliable) /\ fits(size, totalSize)
              THEN scanPending(Tail(list), size + totalSize, FALSE, isReliable,
                               pushBack(sentMsgs, msg), rest)
              ELSE scanPending(Tail(list), size, first, packetReliable,
                               sentMsgs, Append(rest, msg))

tracked(sentMsgs, size, packetReliable) ==
  [msgs |-> sentMsgs, size |-> size, reliable |-> packetReliable,
   elapsed |-> 0, seq |-> 0]

\* one createPacket call on queue state q = [pendingMsgs, pendingPackets,
\* nextPacketId]; threw is the exception of line 167
createPacket(q) ==
  LET s == scanPending(q.pendingMsgs, 0, TRUE, FALSE, <<>>, <<>>)
      tag == q.nextPacketId
  IN IF s.sentMsgs = <<>>
       THEN [threw |-> TRUE, packet |-> SubPacket(serializeMessages(<<>>, 0)), q |-> q]
       ELSE [threw |-> FALSE,
             packet |-> SubPacket(serializeMessages(s.sentMsgs, s.size)),
             q |-> [pendingMsgs |-> s.pendingMsgs,
                    pendingPackets |->
                      [t \in DOMAIN q.pendingPackets \cup {tag} |->
                         IF t = tag THEN tracked(s.sentMsgs, s.size, s.packetReliable)
                                    ELSE q.pendingPackets[t]],
                    nextPacketId |-> tag + 1]]

\* while (!pendingMsgs.empty()) toSend.emplace_back(createPacket());
RECURSIVE packAll(_, _)
packAll(q, collect) ==
  IF q.pendingMsgs = <<>>
    THEN [threw |-> FALSE, q |-> q, toSend |-> collect]
    ELSE LET r == createPacket(q)
         IN IF r.threw THEN [threw |-> TRUE, q |-> r.q, toSend |-> collect]
            ELSE packAll(r.q, Append(collect, r.packet))

\* ---------------------------------------------------------------- sendAll
\* connection->sendTagged: the transport numbers the packets it is given
sendTagged(subPackets) ==
  [i \in 1 .. Len(subPackets) |->
     [subPackets[i] EXCEPT !.seq = (sequenceSent + i - 1) % ShortSpace]]

\* the message bodies a payload carries
bodiesIn(data) == {data.frames[i].payload : i \in 1 .. Len(data.frames)}

\* timesSent after the sub-packets went out
countSent(subPackets) ==
  [b \in DOMAIN timesSent |->
     timesSent[b] + Cardinality({i \in 1 .. Len(subPackets) : b \in bodiesIn(subPackets[i].data)})]

\* for (auto& pending: toSend) pendingPackets[pending.tag].seq = pending.seq;
RECURSIVE updateSequences(_, _)
updateSequences(packets, sent) ==
  IF sent = <<>> THEN packets
  ELSE LET pending == Head(sent)
           entry == IF pending.tag \in DOMAIN packets
                      THEN packets[pending.tag] ELSE ValueInitPacket
       IN updateSequences(
            [t \in DOMAIN packets \cup {pending.tag} |->
               IF t = pending.tag THEN [entry EXCEPT !.seq = pending.seq]
                                  ELSE packets[t]],
            Tail(sent))

sendAll(latency) ==
  LET resent == checkReSend(pendingPackets, latency, <<>>)
      packed == packAll([pendingMsgs |-> pendingMsgs,
                         pendingPackets |-> resent.pendingPackets,
                         nextPacketId |-> nextPacketId],
                        resent.collect)
  IN /\ threw = Returned
     /\ pendingMsgs' = packed.q.pendingMsgs
     /\ nextPacketId' = packed.q.nextPacketId
     /\ UNCHANGED <<channels, nEnq, inbound, received>>
     /\ IF packed.threw
          THEN /\ pendingPackets' = packed.q.pendingPackets
               /\ toSend' = <<>>
               /\ UNCHANGED <<timesSent, sequenceSent>>
               /\ threw' = NotAbleToFit
          ELSE LET sent == sendTagged(packed.toSend)
               IN /\ pendingPackets' = updateSequences(packed.q.pendingPackets, sent)
                  /\ toSend' = sent
                  /\ timesSent' = countSent(sent)
                  /\ sequenceSent' = (sequenceSent + Len(sent)) % ShortSpace
                  /\ threw' = Returned

\* ---------------------------------------------------------- onPacketAcked
\* the comparison without wraparound: seq > lastAckSeq
ackAdvancesPlain(seq, lastAckSeq) == U32Less(lastAckSeq, seq)

ackAdvances(seq, lastAckSeq) ==
  U32Less(U32Sub(seq, lastAckSeq), AckWindow)

\* an ack that keeps the message whatever the channel's settings
keepsAny(settings) == TRUE

keepsLastAck(settings) == settings.keepLastSent

\* the loop body for one message m of the acked packet
ackMessage(chans, m) ==
  IF ackAdvances(m.seq, chans[m.channel].lastAckSeq)
    THEN [chans EXCEPT
            ![m.channel].lastAckSeq = m.seq,
            ![m.channel].lastAck =
               IF keepsLastAck(chans[m.channel].settings) THEN m ELSE @]
    ELSE chans

RECURSIVE ackMessages(_, _)
ackMessages(chans, msgs) ==
  IF msgs = <<>> THEN chans
  ELSE ackMessages(ackMessage(chans, Head(msgs)), Tail(msgs))

\* lower_bound in place of find: the entries at or after tag
findFrom(tag) == {t \in DOMAIN pendingPackets : t >= tag}

\* pendingPackets.find(tag): the entries found, none or one
find(tag) == {t \in DOMAIN pendingPackets : t = tag}

onPacketAcked(tag) ==
  /\ threw = Returned
  /\ UNCHANGED <<pendingMsgs, nextPacketId, sequenceSent, timesSent, nEnq, threw,
                 inbound, received>>
  /\ toSend' = <<>>
  /\ IF find(tag) # {}
       THEN LET i == CHOOSE t \in find(tag) : TRUE
            IN /\ channels' = ackMessages(channels, pendingPackets[i].msgs)
               /\ pendingPackets' = [t \in DOMAIN pendingPackets \ {tag} |-> pendingPackets[t]]
       ELSE UNCHANGED <<channels, pendingPackets>>

\* ------------------------------------------------------------------ clock
older(elapsed) == IF elapsed < MaxElapsed THEN elapsed + 1 ELSE MaxElapsed

Tick ==
  /\ threw = Returned
  /\ pendingPackets' = [t \in DOMAIN pendingPackets |->
                          [pendingPackets[t] EXCEPT !.elapsed = older(@)]]
  /\ toSend' = <<>>
  /\ UNCHANGED <<channels, pendingMsgs, nextPacketId, sequenceSent, timesSent, nEnq, threw,
                 inbound, received>>

\* the caller catches the exception of the call it made; the queue is as the
\* throwing call left it
Caught ==
  /\ threw # Returned
  /\ threw' = Returned
  /\ UNCHANGED <<channels, pendingMsgs, pendingPackets, nextPacketId, sequenceSent,
                 toSend, timesSent, nEnq, inbound, received>>

Next ==
  \/ \E channel \in ChannelInputs, settings \in SettingsInputs : setChannel(channel, settings)
  \/ \E size \in MsgSizes, channelNumber \in ChannelInputs : enqueue(size, channelNumber)
  \/ \E latency \in Latencies : sendAll(latency)
  \/ \E tag \in AckTags : onPacketAcked(tag)
  \/ Tick
  \/ Caught

Spec == Init /\ [][Next]_vars

\* ------------------------------------------------- a queue that has run long
\* Channel 0 after a long run that left nothing pending and nothing tracked:
\* 2^32 - 2 messages sent and acknowledged in order, or 2^31 - 2 messages sent
\* and none acknowledged.
LongRunStarts ==
  { [lastSeq |-> U32(65535, 65534), lastAckSeq |-> U32(65535, 65534)],
    [lastSeq |-> U32(32767, 65534), lastAckSeq |-> U32Zero] }

\* the message channel 0 keeps as lastAck after such a run
KeptAck(settings, lastAckSeq) ==
  IF settings.keepLastSent /\ lastAckSeq # U32Zero
    THEN [channel |-> 0, seq |-> lastAckSeq, size |-> 10, body |-> 0]
    ELSE NoMsg

InitLongRun ==
  /\ \E settings \in SettingsInputs, start \in LongRunStarts :
       channels = [c \in {0} |->
                     [initialized |-> TRUE, settings |-> settings,
                      lastSeq |-> start.lastSeq, lastAckSeq |-> start.lastAckSeq,
                      lastAck |-> KeptAck(settings, start.lastAckSeq)]]
  /\ pendingMsgs = <<>>
  /\ pendingPackets = [t \in {} |-> ValueInitPacket]
  /\ nextPacketId = 0
  /\ sequenceSent = 0
  /\ toSend = <<>>
  /\ timesSent = [b \in 1 .. MaxMsgs |-> 0]
  /\ nEnq = 0
  /\ threw = Returned
  /\ inbound = <<>>
  /\ received = <<>>

SpecLongRun == InitLongRun /\ [][Next]_vars

\* Channel 0, reliable, ordered and keeping its last ack, after 2^32 - 2
\* messages sent and acknowledged in order: its next message is 0xFFFFFFFF
\* and the one after wraps to 0.
InitWrapping ==
  /\ channels = [c \in {0} |->
                   [initialized |-> TRUE,
                    settings |-> [reliable |-> TRUE, ordered |-> TRUE, keepLastSent |-> TRUE],
                    lastSeq |-> U32(65535, 65534), lastAckSeq |-> U32(65535, 65534),
                    lastAck |-> [channel |-> 0, seq |-> U32(65535, 65534),
                                 size |-> 10, body |-> 0]]]
  /\ pendingMsgs = <<>>
  /\ pendingPackets = [t \in {} |-> ValueInitPacket]
  /\ nextPacketId = 0
  /\ sequenceSent = 0
  /\ toSend = <<>>
  /\ timesSent = [b \in 1 .. MaxMsgs |-> 0]
  /\ nEnq = 0
  /\ threw = Returned
  /\ inbound = <<>>
  /\ received = <<>>

SpecWrapping == InitWrapping /\ [][Next]_vars

\* ------------------------------------------ a queue with messages to pack
\* what the caller has enqueued, call by call: channel and message size
EnqueueInputs == {0, 1} \X MsgSizes

\* the pending list after the enqueue calls in calls, on a queue that has
\* sent nothing yet: each message has its channel's next sequence number
enqueuedList(calls) ==
  [i \in DOMAIN calls |->
     [channel |-> calls[i][1],
      seq |-> U32(0, Cardinality({k \in 1 .. i : calls[k][1] = calls[i][1]})),
      size |-> calls[i][2],
      body |-> i]]

\* channels 0 and 1 set up and up to MaxPending messages enqueued
InitPacking ==
  /\ \E s0 \in SettingsInputs, s1 \in SettingsInputs, n \in 0 .. MaxPending :
       \E calls \in [1 .. n -> EnqueueInputs] :
         /\ channels = [c \in {0, 1} |->
                          [NewChannel EXCEPT
                             !.initialized = TRUE,
                             !.settings = IF c = 0 THEN s0 ELSE s1,
                             !.lastSeq = U32(0, Cardinality({k \in 1 .. n : calls[k][1] = c}))]]
         /\ pendingMsgs = enqueuedList(calls)
         /\ nEnq = n
  /\ pendingPackets = [t \in {} |-> ValueInitPacket]
  /\ nextPacketId = 0
  /\ sequenceSent = 0
  /\ toSend = <<>>
  /\ timesSent = [b \in 1 .. MaxPending |-> 0]
  /\ threw = Returned
  /\ inbound = <<>>
  /\ received = <<>>

\* the queue sends what is pending
NextPacking ==
  \/ \E latency \in Latencies : sendAll(latency)
  \/ Caught

SpecPacking == InitPacking /\ [][NextPacking]_vars

\* -------------------------------------------------------------- receiveAll
\* while (connection->receive(packet)) { }: every packet is taken from the
\* transport and the loop body adds nothing to result
RECURSIVE drain(_, _)
drain(packets, result) ==
  IF packets = <<>> THEN result ELSE drain(Tail(packets), result)

receiveAll ==
  /\ threw = Returned
  /\ received' = drain(inbound, <<>>)
  /\ inbound' = <<>>
  /\ toSend' = <<>>
  /\ UNCHANGED <<channels, pendingMsgs, pendingPackets, nextPacketId, sequenceSent,
                 timesSent, nEnq, threw>>

\* what the peer's queue sends on channel 0: packets of no, one and two messages
PeerPackets ==
  LET msg(seq, size, body) == [channel |-> 0, seq |-> U32(0, seq), size |-> size, body |-> body]
      one(m) == headerSize(slot(channels, 0).settings.ordered, m.size) + m.size
      total(msgs) == IF msgs = <<>> THEN 0
                     ELSE IF Len(msgs) = 1 THEN one(msgs[1])
                     ELSE one(msgs[1]) + one(msgs[2])
      packet(msgs) == serializeMessages(msgs, total(msgs))
  IN { packet(<<>>),
       packet(<<msg(1, 10, 1)>>),
       packet(<<msg(2, 600, 2)>>),
       packet(<<msg(3, 10, 3), msg(4, 10, 4)>>) }

\* the transport has received a packet from the peer
Arrive(packet) ==
  /\ threw = Returned
  /\ Len(inbound) < MaxInbound
  /\ inbound' = Append(inbound, packet)
  /\ toSend' = <<>>
  /\ UNCHANGED <<channels, pendingMsgs, pendingPackets, nextPacketId, sequenceSent,
                 timesSent, nEnq, threw, received>>

\* a queue with channel 0 set up, and its transport receiving
InitReceive ==
  /\ \E settings \in SettingsInputs :
       channels = [c \in {0} |-> [NewChannel EXCEPT !.initialized = TRUE,
                                                   !.settings = settings]]
  /\ pendingMsgs = <<>>
  /\ pendingPackets = [t \in {} |-> ValueInitPacket]
  /\ nextPacketId = 0
  /\ sequenceSent = 0
  /\ toSend = <<>>
  /\ timesSent = [b \in 1 .. MaxMsgs |-> 0]
  /\ nEnq = 0
  /\ threw = Returned
  /\ inbound = <<>>
  /\ received = <<>>

NextReceive ==
  \/ \E packet \in PeerPackets : Arrive(packet)
  \/ receiveAll

SpecReceive == InitReceive /\ [][NextReceive]_vars

\* ================================================================ properties
Range(f) == {f[i] : i \in DOMAIN f}

reliableChannel(c) == slot(channels, c).settings.reliable

\* the messages in the pending list or in the pending-packet table
heldIn(msgs, packets) ==
  Range(msgs) \cup UNION {Range(packets[t].msgs) : t \in DOMAIN packets}

\* what one message takes on the wire, read back from its frame
frameSize(f) ==
  1 + (IF f.sequence = -1 THEN 0 ELSE 2) + Len(f.length)
    + (IF Len(f.length) = 2 THEN (f.length[1] - 128) * 256 + f.length[2]
                            ELSE f.length[1])

RECURSIVE SumOver(_, _)
SumOver(S, f) ==
  IF S = {} THEN 0
  ELSE LET x == CHOOSE y \in S : TRUE IN f[x] + SumOver(S \ {x}, f)

wireSize(data) ==
  SumOver(DOMAIN data.frames, [i \in DOMAIN data.frames |-> frameSize(data.frames[i])])

\* the payloads of the last sendTagged call that carry body b
payloadsWith(sent, b) == {i \in DOMAIN sent : b \in bodiesIn(sent[i].data)}

\* ------------------------------------------------------------------------ C1
\* C1: a message of a reliable channel that the queue tracks stays pending or
\* tracked (so that it can be sent again after the next timeout window) in
\* every step except the ack of the packet that carries it.
C1_KeptUntilAcked ==
  [][\A t \in DOMAIN pendingPackets :
       (pendingPackets[t].reliable /\ ~onPacketAcked(t))
         => Range(pendingPackets[t].msgs) \subseteq heldIn(pendingMsgs', pendingPackets')]_vars

\* ------------------------------------------------------------------------ C2
\* C2: a sendAll that runs while a tracked reliable packet is older than
\* max(0.1 s, 2 * latency) hands sendTagged exactly one resend payload for it,
\* the serialization of the same messages in the same order.
C2_StaleReliableResentOnce ==
  [][\A latency \in Latencies :
       sendAll(latency) =>
         \A t \in DOMAIN pendingPackets :
           (pendingPackets[t].reliable /\ isStale(pendingPackets[t], latency))
             => Cardinality({i \in DOMAIN toSend' :
                              /\ toSend'[i].resends
                              /\ toSend'[i].data =
                                   serializeMessages(pendingPackets[t].msgs,
                                                     pendingPackets[t].size)}) = 1]_vars

\* ------------------------------------------------------------------------ C3
\* C3: a payload that carries a message of a non-reliable channel is never a
\* resend and is the first payload that carries the message; a sendAll that
\* finds a tracked non-reliable packet timed out removes it from tracking and
\* puts none of its messages in a payload.
C3_NonReliableSentAtMostOnce ==
  [][/\ \A i \in DOMAIN toSend' : \A k \in DOMAIN toSend'[i].data.frames :
          LET f == toSend'[i].data.frames[k]
          IN ~reliableChannel(f.channel)
               => ~toSend'[i].resends /\ timesSent'[f.payload] = 1
     /\ \A b \in DOMAIN timesSent : timesSent[b] <= timesSent'[b]
     /\ \A latency \in Latencies :
          sendAll(latency) =>
            \A t \in DOMAIN pendingPackets :
              LET pending == pendingPackets[t]
              IN (pending.msgs # <<>> /\ ~pending.reliable /\ isStale(pending, latency))
                   => /\ t \notin DOMAIN pendingPackets'
                      /\ \A m \in Range(pending.msgs) :
                           /\ payloadsWith(toSend', m.body) = {}
                           /\ m \notin heldIn(pendingMsgs', pendingPackets')]_vars

\* a message of a non-reliable channel went out once, was never acknowledged,
\* timed out and is gone, and a later sendAll has sent another message
C3_Witness ==
  /\ \A c \in DOMAIN channels :
       ~channels[c].settings.reliable /\ channels[c].lastAckSeq = U32Zero
  /\ nEnq = 2
  /\ timesSent[1] = 1
  /\ 1 \notin {m.body : m \in heldIn(pendingMsgs, pendingPackets)}
  /\ payloadsWith(toSend, 2) # {}

\* ------------------------------------------------------------------------ C4
\* C4: when every pending message fits the budget on its own, sendAll empties
\* the pending list and puts each message that was pending in exactly one of
\* the packets it creates: once in one new entry of the pending-packet table
\* and in one new payload.
fitsOnItsOwn(m) ==
  headerSize(slot(channels, m.channel).settings.ordered, m.size) + m.size <= maxSize

C4_EveryPendingMessagePackedOnce ==
  [][\A latency \in Latencies :
       (sendAll(latency) /\ \A m \in Range(pendingMsgs) : fitsOnItsOwn(m)) =>
         /\ pendingMsgs' = <<>>
         /\ threw' = Returned
         /\ \A m \in Range(pendingMsgs) :
              /\ Cardinality({<<t, i>> \in (nextPacketId .. nextPacketId' - 1) \X (1 .. MaxMsgs + 1) :
                                /\ t \in DOMAIN pendingPackets'
                                /\ i \in DOMAIN pendingPackets'[t].msgs
                                /\ pendingPackets'[t].msgs[i] = m}) = 1
              /\ Cardinality({i \in payloadsWith(toSend', m.body) : ~toSend'[i].resends}) = 1]_vars

\* one sendAll has packed two pending messages into two packets
C4_Witness ==
  /\ Len(toSend) = 2
  /\ \A i \in DOMAIN toSend : ~toSend[i].resends
  /\ pendingMsgs = <<>>
  /\ nextPacketId = 2
  /\ {0, 1} \subseteq DOMAIN pendingPackets
  /\ timesSent[1] = 1 /\ timesSent[2] = 1

\* ------------------------------------------------------------------------ C5
\* C5: every tracked packet and every payload handed to the transport, new or
\* resent, takes at most 1200 bytes: the sum over its messages of header size
\* plus payload size, which is also the size recorded for it.
packetSize(msgs) ==
  SumOver(DOMAIN msgs,
          [i \in DOMAIN msgs |->
             headerSize(slot(channels, msgs[i].channel).settings.ordered, msgs[i].size)
               + msgs[i].size])

C5_PacketWithinBudget ==
  /\ \A t \in DOMAIN pendingPackets :
       /\ pendingPackets[t].size = packetSize(pendingPackets[t].msgs)
       /\ pendingPackets[t].size <= maxSize
  /\ \A i \in DOMAIN toSend :
       /\ toSend[i].data.size = wireSize(toSend[i].data)
       /\ wireSize(toSend[i].data) <= maxSize

\* one sendAll has sent a resend payload and a new one, each holding one
\* message of more than 600 bytes of the same channel, which one packet
\* could not hold together
C5_Witness ==
  /\ Len(toSend) = 2
  /\ toSend[1].resends /\ ~toSend[2].resends
  /\ wireSize(toSend[1].data) > 600 /\ wireSize(toSend[2].data) > 600
  /\ toSend[1].data.frames[1].channel = toSend[2].data.frames[1].channel

\* ------------------------------------------------------------------------ C6
\* C6: in every tracked packet each message's channel has the reliable setting
\* that the packet's reliable flag records.
C6_ReliabilityHomogeneous ==
  \A t \in DOMAIN pendingPackets : \A m \in Range(pendingPackets[t].msgs) :
    reliableChannel(m.channel) = pendingPackets[t].reliable

\* one sendAll has split a reliable and a non-reliable message over two
\* tracked packets
C6_Witness ==
  /\ {0, 1} \subseteq DOMAIN pendingPackets
  /\ pendingPackets[0].reliable # pendingPackets[1].reliable
  /\ pendingPackets[0].msgs # <<>> /\ pendingPackets[1].msgs # <<>>
  /\ pendingPackets[0].elapsed = 0 /\ pendingPackets[1].elapsed = 0
  /\ Len(toSend) = 2

\* ------------------------------------------------------------------------ C7
\* C7: every assignment an ack makes to a channel's lastAckSeq sets it to a
\* value ahead of, or equal to, the value it had, by less than 2^31 in the
\* circular 32-bit order; the ack of a message a few numbers ahead of
\* lastAckSeq advances it, also across the wraparound, and the ack of a
\* message a few numbers behind leaves it alone; nothing but an ack changes it.
HalfSpace == U32(32768, 0)

\* a is ahead of b by at least 1 and less than 2^16
closelyAhead(a, b) == a # b /\ U32Sub(a, b).hi = 0

C7_AckNeverMovesBackward ==
  [][/\ \A tag \in AckTags :
          (onPacketAcked(tag) /\ tag \in DOMAIN pendingPackets) =>
            LET msgs == pendingPackets[tag].msgs
            IN \A k \in DOMAIN msgs :
                 LET before == ackMessages(channels, SubSeq(msgs, 1, k - 1))
                     after == ackMessage(before, msgs[k])
                     c == msgs[k].channel
                     old == before[c].lastAckSeq
                     new == after[c].lastAckSeq
                 IN /\ U32Less(U32Sub(new, old), HalfSpace)
                    /\ closelyAhead(msgs[k].seq, old) => new = msgs[k].seq
                    /\ closelyAhead(old, msgs[k].seq) => new = old
                    /\ k = Len(msgs) => channels' = after
     /\ (\E c \in DOMAIN channels : channels'[c].lastAckSeq # channels[c].lastAckSeq)
          => \E tag \in DOMAIN pendingPackets : onPacketAcked(tag)]_vars

\* channel 0 started at 0xFFFFFFFE, two messages, 0xFFFFFFFF and 0, went out
\* and the ack of message 0 has moved lastAckSeq across the wraparound
C7_Witness ==
  /\ 0 \in DOMAIN channels
  /\ channels[0].lastSeq = U32Zero
  /\ channels[0].lastAckSeq = U32Zero
  /\ nEnq = 2
  /\ timesSent[1] = 1 /\ timesSent[2] = 1
  /\ heldIn(pendingMsgs, pendingPackets) = {}

\* ------------------------------------------------------------------------ C8
\* C8: onPacketAcked with a tag that is not in the pending-packet table
\* returns without an exception and leaves the channels, the pending list and
\* the pending-packet table as they were.
C8_UnknownAckIsNoOp ==
  [][\A tag \in AckTags :
       (onPacketAcked(tag) /\ tag \notin DOMAIN pendingPackets)
         => /\ UNCHANGED <<channels, pendingMsgs, pendingPackets>>
            /\ threw' = Returned]_vars

\* tag 0 was issued, its packet was resent on timeout and evicted, tag 1 is
\* still tracked and tag 2 was never issued: acks of 0 and 2 find nothing
C8_Witness ==
  /\ nextPacketId = 2
  /\ 0 \notin DOMAIN pendingPackets
  /\ 1 \in DOMAIN pendingPackets
  /\ timesSent[1] = 2
  /\ toSend = <<>>
  /\ threw = Returned

\* ------------------------------------------------------------------------ C9
\* C9: enqueue on one channel leaves every other channel's slot (settings,
\* lastSeq, lastAckSeq, lastAck) as it was, and an ack changes only the slots
\* of channels that have a message in the acked packet.
C9_ChannelIsolation ==
  [][/\ \A size \in MsgSizes, a \in ChannelInputs :
          enqueue(size, a) =>
            /\ DOMAIN channels' = DOMAIN channels
            /\ \A b \in DOMAIN channels \ {a} : channels'[b] = channels[b]
     /\ \A tag \in AckTags :
          onPacketAcked(tag) =>
            /\ DOMAIN channels' = DOMAIN channels
            /\ \A b \in DOMAIN channels :
                 (tag \notin DOMAIN pendingPackets
                    \/ b \notin {m.channel : m \in Range(pendingPackets[tag].msgs)})
                   => channels'[b] = channels[b]]_vars

\* channel 0 has had a message enqueued and acknowledged while channel 1,
\* configured, still has the counters it was created with
C9_Witness ==
  /\ {0, 1} \subseteq DOMAIN channels
  /\ channels[0].lastSeq = U32(0, 1)
  /\ channels[0].lastAckSeq = U32(0, 1)
  /\ channels[1].lastSeq = U32Zero
  /\ channels[1].lastAckSeq = U32Zero
  /\ channels[1].lastAck = NoMsg

\* ----------------------------------------------------------------------- C10
\* C10: setChannel with a channel number outside [0, 32) or with a channel
\* that is already set ends with an exception and leaves every channel slot
\* as it was; in every step a slot that is initialized stays initialized and
\* keeps its settings, and only slots in [0, 32) are ever written.
C10_SettingsSetOnce ==
  [][/\ \A channel \in ChannelInputs, settings \in SettingsInputs :
          (setChannel(channel, settings)
             /\ (~channelInRange(channel) \/ slot(channels, channel).initialized))
            => threw' # Returned /\ channels' = channels
     /\ \A c \in DOMAIN channels :
          channels[c].initialized
            => /\ c \in DOMAIN channels'
               /\ channels'[c].initialized
               /\ channels'[c].settings = channels[c].settings
     /\ \A c \in DOMAIN channels' : channelInRange(c) /\ channels'[c].initialized]_vars

\* a second setChannel on a configured channel has just thrown, after the
\* channel was used
C10_Witness ==
  /\ threw = AlreadySet
  /\ \E c \in DOMAIN channels : channels[c].initialized /\ channels[c].lastSeq # U32Zero

\* ----------------------------------------------------------------------- C11
\* C11: enqueue with a channel number outside [0, 32) or with a channel that
\* has not been set up ends with an exception and leaves the pending list and
\* every channel's lastSeq as they were: no message is appended and no
\* sequence number is used.
C11_FailedEnqueueChangesNothing ==
  [][\A size \in MsgSizes, channelNumber \in ChannelInputs :
       (enqueue(size, channelNumber)
          /\ (~channelInRange(channelNumber) \/ ~slot(channels, channelNumber).initialized))
         => /\ threw' # Returned
            /\ pendingMsgs' = pendingMsgs
            /\ nEnq' = nEnq
            /\ DOMAIN channels' = DOMAIN channels
            /\ \A c \in DOMAIN channels : channels'[c].lastSeq = channels[c].lastSeq]_vars

\* an enqueue on a channel that was never set up has just thrown, while a
\* message of a configured channel is pending
C11_Witness ==
  /\ threw = NotSetUp
  /\ pendingMsgs # <<>>
  /\ \E c \in DOMAIN channels : channels[c].lastSeq # U32Zero

\* ----------------------------------------------------------------------- C12
\* C12: receiveAll takes every packet the transport holds and returns the
\* messages those packets carry, in arrival order; when a packet with a
\* message is waiting, what it returns is not empty.
RECURSIVE framesOf(_)
framesOf(packets) ==
  IF packets = <<>> THEN <<>> ELSE Head(packets).frames \o framesOf(Tail(packets))

C12_ReceiveAllReturnsMessages ==
  [][receiveAll =>
       /\ inbound' = <<>>
       /\ Len(received') = Len(framesOf(inbound))
       /\ \A i \in DOMAIN received' :
            /\ received'[i].channel = framesOf(inbound)[i].channel
            /\ received'[i].body = framesOf(inbound)[i].payload]_vars

\* ----------------------------------------------------------------------- C13
\* C13: every payload a sendAll hands to the transport, newly packed or a
\* resend, carries a tag taken from the packet counter in that call: a value
\* the counter had not reached before, different from the tag of every other
\* payload of the call; the counter never decreases.
C13_FreshTagPerPayload ==
  [][/\ nextPacketId' >= nextPacketId
     /\ \A i \in DOMAIN toSend' :
          /\ toSend'[i].tag \in nextPacketId .. nextPacketId' - 1
          /\ \A j \in DOMAIN toSend' : i # j => toSend'[i].tag # toSend'[j].tag]_vars

\* ----------------------------------------------------------------------- C14
\* C14: in every state and for every channel, a kept lastAck message exists
\* only when the channel has keepLastSent, and it is a message of that channel
\* whose seq is the channel's lastAckSeq.
C14_LastAckIsLatestAcked ==
  \A c \in DOMAIN channels :
    channels[c].lastAck # NoMsg
      => /\ channels[c].settings.keepLastSent
         /\ channels[c].lastAck.channel = c
         /\ channels[c].lastAck.seq = channels[c].lastAckSeq

\* the one packet ever created carried messages 1 and 2 of channel 0, which
\* keeps its last ack; the packet was acknowledged and message 2 is kept
C14_Witness ==
  /\ 0 \in DOMAIN channels
  /\ channels[0].settings.keepLastSent
  /\ channels[0].lastAck.body = 2
  /\ channels[0].lastAck.seq = U32(0, 2)
  /\ channels[0].lastAckSeq = U32(0, 2)
  /\ nextPacketId = 1
  /\ 0 \notin DOMAIN pendingPackets
  /\ timesSent[1] = 1 /\ timesSent[2] = 1

\* ----------------------------------------------------------------------- C15
\* C15: the ack of a message with sequence s sets the channel's lastAckSeq to
\* s exactly when (s - lastAckSeq) mod 2^32 is less than 2^31, and leaves it
\* as it was exactly when that distance is 2^31 or more; a distance of
\* 2^31 - 1 advances it.
C15_AdvancesBelowHalfSpace ==
  [][\A tag \in AckTags :
       (onPacketAcked(tag) /\ tag \in DOMAIN pendingPackets) =>
         LET msgs == pendingPackets[tag].msgs
         IN \A k \in DOMAIN msgs :
              LET before == ackMessages(channels, SubSeq(msgs, 1, k - 1))
                  after == ackMessage(before, msgs[k])
                  c == msgs[k].channel
                  old == before[c].lastAckSeq
                  new == after[c].lastAckSeq
              IN /\ k = Len(msgs) => channels' = after
                 /\ IF U32Less(U32Sub(msgs[k].seq, old), HalfSpace)
                      THEN new = msgs[k].seq
                      ELSE new = old]_vars

\* ----------------------------------------------------------------------- C16
\* C16: a sendAll removes a tracked packet from the pending-packet table
\* exactly when its age is more than max(0.1 s, 2 * latency): a packet at or
\* below that age stays tracked as it was and none of its messages is resent,
\* and every packet above it, reliable or not, is no longer tracked after the
\* call.
pastThreshold(elapsed, latency) ==
  elapsed > (IF ResendFloor >= 2 * latency THEN ResendFloor ELSE 2 * latency)

C16_EvictsExactlyStale ==
  [][\A latency \in Latencies :
       sendAll(latency) =>
         \A t \in DOMAIN pendingPackets :
           IF pastThreshold(pendingPackets[t].elapsed, latency)
             THEN t \notin DOMAIN pendingPackets'
             ELSE /\ t \in DOMAIN pendingPackets'
                  /\ pendingPackets'[t] = pendingPackets[t]
                  /\ \A i \in DOMAIN toSend' :
                       toSend'[i].resends =>
                         bodiesIn(toSend'[i].data)
                           \cap {m.body : m \in Range(pendingPackets[t].msgs)} = {}]_vars

\* ----------------------------------------------------------------------- C17
\* C17: a successful enqueue on a channel, ordered or not, appends a message
\* that carries the channel number and the channel's lastSeq plus one modulo
\* 2^32, which becomes the channel's lastSeq; a channel starts at 0, so its
\* k-th message gets k mod 2^32 and its first message 1; nothing else changes
\* lastSeq; the messages of a resend payload carry the sequence numbers they
\* were given at enqueue.
C17_SequencePerChannel ==
  [][/\ \A size \in MsgSizes, c \in ChannelInputs :
          (channelInRange(c) /\ slot(channels, c).initialized /\ enqueue(size, c)) =>
            /\ Len(pendingMsgs') = Len(pendingMsgs) + 1
            /\ SubSeq(pendingMsgs', 1, Len(pendingMsgs)) = pendingMsgs
            /\ pendingMsgs'[Len(pendingMsgs')].channel = c
            /\ pendingMsgs'[Len(pendingMsgs')].size = size
            /\ pendingMsgs'[Len(pendingMsgs')].seq = U32Inc(slot(channels, c).lastSeq)
            /\ channels'[c].lastSeq = U32Inc(slot(channels, c).lastSeq)
            /\ slot(channels, c).lastSeq = U32Zero
                 => pendingMsgs'[Len(pendingMsgs')].seq = U32(0, 1)
     /\ \A c \in DOMAIN channels' :
          /\ c \notin DOMAIN channels => channels'[c].lastSeq = U32Zero
          /\ (c \in DOMAIN channels /\ channels'[c].lastSeq # channels[c].lastSeq)
               => \E size \in MsgSizes : enqueue(size, c)
     /\ \A i \in DOMAIN toSend' :
          toSend'[i].resends =>
            \E t \in DOMAIN pendingPackets :
              /\ t \notin DOMAIN pendingPackets'
              /\ Len(pendingPackets[t].msgs) = Len(toSend'[i].data.frames)
              /\ \A k \in DOMAIN pendingPackets[t].msgs :
                   LET m == pendingPackets[t].msgs[k]
                       f == toSend'[i].data.frames[k]
                   IN /\ f.payload = m.body
                      /\ f.channel = m.channel
                      /\ slot(channels, m.channel).settings.ordered
                           => f.sequence = m.seq.lo]_vars

\* channel 0, ordered and reliable, started at 0xFFFFFFFE; its next two
\* messages got 0xFFFFFFFF and 0, went out in one packet and have just been
\* resent with the sequence numbers 0xFFFF and 0 on the wire
C17_Witness ==
  /\ 0 \in DOMAIN channels
  /\ channels[0].lastSeq = U32Zero
  /\ Len(toSend) = 1
  /\ toSend[1].resends
  /\ Len(toSend[1].data.frames) = 2
  /\ toSend[1].data.frames[1].sequence = 65535
  /\ toSend[1].data.frames[2].sequence = 0
  /\ timesSent[1] = 2 /\ timesSent[2] = 2

\* ----------------------------------------------------------------------- C18
\* C18: when sendAll ends with "Was not able to fit any messages into
\* packet!", every message that was pending or tracked before the call (a
\* timed-out packet of a non-reliable channel aside, which is dropped in any
\* case) is still pending, or still tracked in an entry the call left as it
\* was, or is in a payload the call handed to the transport.
C18_FailedSendAllLosesNothing ==
  [][\A latency \in Latencies :
       (sendAll(latency) /\ threw' = NotAbleToFit) =>
         /\ \A m \in Range(pendingMsgs) :
              \/ m \in Range(pendingMsgs')
              \/ payloadsWith(toSend', m.body) # {}
         /\ \A t \in DOMAIN pendingPackets :
              (pendingPackets[t].reliable \/ ~isStale(pendingPackets[t], latency)) =>
                \/ t \in DOMAIN pendingPackets' /\ pendingPackets'[t] = pendingPackets[t]
                \/ \A m \in Range(pendingPackets[t].msgs) :
                     payloadsWith(toSend', m.body) # {}]_vars

\* ----------------------------------------------------------------------- C19
\* the new packet of the step that holds pending message i, and its place in it
packedAt(i) ==
  {<<t, k>> \in (nextPacketId .. nextPacketId' - 1) \X (1 .. MaxPending + 1) :
     /\ t \in DOMAIN pendingPackets'
     /\ k \in DOMAIN pendingPackets'[t].msgs
     /\ pendingPackets'[t].msgs[k] = pendingMsgs[i]}

\* C19 as claimed: of two messages enqueued on the same channel, the one
\* enqueued earlier is never in a packet with a later tag than the packet of
\* the one enqueued later, and inside one packet they keep their enqueue
\* order, for any mix of sizes and settings.
C19_FifoAcrossPackets ==
  [][\A latency \in Latencies :
       sendAll(latency) =>
         \A i \in DOMAIN pendingMsgs, j \in DOMAIN pendingMsgs :
           (i < j /\ pendingMsgs[i].channel = pendingMsgs[j].channel) =>
             \A a \in packedAt(i), b \in packedAt(j) :
               a[1] < b[1] \/ (a[1] = b[1] /\ a[2] < b[2])]_vars

\* C19 as amended: inside one packet the messages of a channel keep their
\* enqueue order; across packets the earlier message of a channel is in the
\* same or an earlier packet than the later one whenever the later one is at
\* least as large, and then the earlier one is packed whenever the later is.
C19_FifoForNoSmallerMessages ==
  [][\A latency \in Latencies :
       sendAll(latency) =>
         \A i \in DOMAIN pendingMsgs, j \in DOMAIN pendingMsgs :
           (i < j /\ pendingMsgs[i].channel = pendingMsgs[j].channel) =>
             /\ \A a \in packedAt(i), b \in packedAt(j) :
                  a[1] = b[1] => a[2] < b[2]
             /\ pendingMsgs[j].size >= pendingMsgs[i].size =>
                  /\ packedAt(j) # {} => packedAt(i) # {}
                  /\ \A a \in packedAt(i), b \in packedAt(j) : a[1] <= b[1]]_vars

\* three messages of channel 0, of 600, 600 and 10 bytes, went out in one
\* sendAll: the first and the third in packet 0, the second in packet 1
C19_Witness ==
  /\ {0, 1} \subseteq DOMAIN pendingPackets
  /\ Len(pendingPackets[0].msgs) = 2
  /\ pendingPackets[0].msgs[1].body = 1 /\ pendingPackets[0].msgs[1].size = 600
  /\ pendingPackets[0].msgs[2].body = 3 /\ pendingPackets[0].msgs[2].size = 10
  /\ Len(pendingPackets[1].msgs) = 1
  /\ pendingPackets[1].msgs[1].body = 2 /\ pendingPackets[1].msgs[1].size = 600
  /\ \A t \in {0, 1} : \A m \in Range(pendingPackets[t].msgs) : m.channel = 0
  /\ Len(toSend) = 2

\* ----------------------------------------------------------------------- C20
\* C20: in every state each entry of the pending-packet table sits at a tag
\* that createPacket handed out and holds a non-empty message list with the
\* size and the reliable flag packing gave it; no entry carries no messages.
C20_EveryEntryWasPacked ==
  \A t \in DOMAIN pendingPackets :
    /\ t \in 0 .. nextPacketId - 1
    /\ pendingPackets[t].msgs # <<>>
    /\ pendingPackets[t].size = packetSize(pendingPackets[t].msgs)
    /\ \A m \in Range(pendingPackets[t].msgs) :
         reliableChannel(m.channel) = pendingPackets[t].reliable

====
